---- MODULE Spec2Model ----
(***************************************************************************)
(* Model of the user page component (ui/src/components/user.tsx): the      *)
(* view state held by the component, the handlers that mutate it, the      *)
(* dispatch of inbound websocket envelopes (parseMessage) and the          *)
(* retryWhen/delay/take pipeline through which the page subscribes to the  *)
(* shared inbound stream.                                                  *)
(*                                                                         *)
(* JavaScript object identity is modelled where the code depends on it:    *)
(* the constructor assigns this.state = this.emptyState (one object), the  *)
(* component library's setState installs a shallow copy as the new         *)
(* this.state, and nested objects (the settings form, the delete form,     *)
(* the item arrays) stay shared between the copy and emptyState until a    *)
(* field is reassigned.                                                    *)
(***************************************************************************)
EXTENDS Integers, Sequences, FiniteSets, TLC

\* ---------------------------------------------------------------- bounds
MaxPage == 2
MaxPending == 2

\* ------------------------------------------------------- program constants
RetryLimit == 10
fetchLimit == 20

\* ------------------------------------------------------------ JS values
Null == "null"
Undefined == "undefined"
NullId == 0
NaN == -1
JsTrue == "true"
JsFalse == "false"
Truthy(v) == v = JsTrue

Views == {"Overview", "Comments", "Posts", "Saved"}
Sorts == {"New", "TopAll"}
ArrayFields == {"comments", "posts"}
FatalError == "couldnt_find_that_username_or_email"

\* ------------------------------------------------------------- payloads
MkComment(i, c, s, p) ==
  [id |-> i, creator_id |-> c, banned |-> FALSE, score |-> s,
   saved |-> FALSE, content |-> "orig", published |-> p]
MkPost(i, c, s, p) ==
  [id |-> i, creator_id |-> c, banned |-> FALSE, score |-> s, published |-> p]

UserA == [id |-> 1, name |-> "alice", banned |-> JsFalse, email |-> "a@x"]
\* The same user as a later response reports them.
UserA2 == [id |-> 1, name |-> "alice", banned |-> JsTrue, email |-> Null]

DetailsA ==
  [user |-> UserA,
   comments |-> << MkComment(1, 1, 5, 30), MkComment(2, 2, 3, 20) >>,
   posts |-> << MkPost(10, 1, 5, 40) >>,
   follows |-> << 7 >>, moderates |-> << >>, admins |-> << 1 >>]
DetailsB ==
  [user |-> UserA2,
   comments |-> << MkComment(3, 2, 1, 10) >>,
   posts |-> << MkPost(10, 2, 5, 40), MkPost(11, 1, 3, 50) >>,
   follows |-> << >>, moderates |-> << 8 >>, admins |-> << 1, 2 >>]
UserDetailsResponses == {DetailsA, DetailsB}

NoUser == [id |-> NullId, theme |-> Null, show_nsfw |-> Null, avatar |-> Null]
MeA == [id |-> 1, theme |-> Null, show_nsfw |-> JsFalse, avatar |-> Null]
MeB == [id |-> 2, theme |-> "darkly", show_nsfw |-> JsFalse, avatar |-> Null]
MeA2 == [id |-> 1, theme |-> "litera", show_nsfw |-> JsTrue, avatar |-> "/pictrs/image/h1"]
LoginResponses == {MeA2}

NoData == [none |-> TRUE]
Env(o, d, e, r) == [op |-> o, data |-> d, error |-> e, reconnect |-> r]
NoMsg == Env(Null, NoData, Null, FALSE)

\* Envelopes that answer a request of this page (the server sends one per
\* request), by the operation they answer.
LoadResponses ==
  { Env("GetUserDetails", d, Null, FALSE) : d \in UserDetailsResponses }
  \cup { Env("GetUserDetails", NoData, FatalError, FALSE) }
SaveResponses ==
  { Env("SaveUserSettings", d, Null, FALSE) : d \in LoginResponses }
DeleteResponses ==
  { Env("DeleteAccount", NoData, Null, FALSE),
    Env("DeleteAccount", NoData, "password_incorrect", FALSE) }

\* Envelopes the shared channel delivers at any time: pushes, answers to
\* requests of the embedded listings, and the reconnect advisory.
CommentData == [comment : { [id |-> 1, content |-> "edited", score |-> 6, saved |-> TRUE],
                            [id |-> 9, content |-> "edited", score |-> 6, saved |-> TRUE] }]
PostData == [post : { [id |-> 10, score |-> 6], [id |-> 99, score |-> 6] }]
BanData == [user : { [id |-> 1], [id |-> 3] }, banned : BOOLEAN]
AdminData == [admins : { << 2 >> }]
Pushes ==
  { Env(o, d, Null, FALSE) :
      o \in {"EditComment", "SaveComment", "CreateCommentLike"}, d \in CommentData }
  \cup { Env("CreateComment", [comment |-> [id |-> 4, creator_id |-> 1]], Null, FALSE) }
  \cup { Env("CreatePostLike", d, Null, FALSE) : d \in PostData }
  \cup { Env("BanUser", d, Null, FALSE) : d \in BanData }
  \cup { Env("AddAdmin", d, Null, FALSE) : d \in AdminData }
  \cup { Env("GetSite", NoData, Null, FALSE) }
  \cup { Env("CreateCommentLike", [comment |-> [id |-> 1, content |-> "edited", score |-> 6, saved |-> TRUE]],
              "couldnt_like_comment", FALSE),
         Env("GetUserDetails", DetailsB, "not_logged_in", FALSE) }
  \cup { Env(Null, NoData, Null, TRUE),
         Env("GetUserDetails", DetailsB, Null, TRUE) }

\* ------------------------------------------------------------------ state
VARIABLES
  state,             \* this.state: the object the component currently renders
  emptyState,        \* this.emptyState
  aliased,           \* this.state and this.emptyState are one object
  shared,            \* array fields whose array is referenced by both objects
  userSettingsForm,  \* the one settings-form object both reference
  deleteAccountForm, \* the one delete-form object both reference
  me,                \* UserService.Instance.user
  pending,           \* requests handed to the services and not yet answered
  sent,              \* the last GetUserDetailsForm handed to the service
  location,          \* the last path pushed by updateUrl
  out,               \* toast and navigation calls of the last handler
  last,              \* the last handler run and the envelope it was given
  subscription,      \* state of the retryWhen subscription
  takeCount,         \* errors counted by take(10)
  observed,          \* calls of the subscriber's error and complete callbacks
  sinceDispatch      \* stream errors since parseMessage was last handed an envelope

vars == << state, emptyState, aliased, shared, userSettingsForm, deleteAccountForm,
           me, pending, sent, location, out, last, subscription, takeCount, observed,
           sinceDispatch >>


\* ------------------------------------------------------- pure operators
\* getViewFromProps / getSortTypeFromProps / getPageFromProps: an absent
\* route parameter (Undefined) selects the default.
getViewFromProps(params) == IF params.view = Undefined THEN "Overview" ELSE params.view
getSortTypeFromProps(params) == IF params.sort = Undefined THEN "New" ELSE params.sort
getPageFromProps(params) == IF params.page = NullId THEN 1 ELSE params.page

\* Route parameters the router can hand to the page; page NullId is "absent".
RouteParams ==
  { [view |-> Undefined, sort |-> Undefined, page |-> NullId],
    [view |-> "Saved", sort |-> "TopAll", page |-> MaxPage],
    [view |-> "Comments", sort |-> Undefined, page |-> NullId] }

\* The two ways the route names the target: /u/id/:id (username undefined) and
\* /u/:username (Number(undefined) is NaN).
RouteTargets ==
  { [user_id |-> 1, username |-> Undefined],
    [user_id |-> NaN, username |-> "alice"] }

NullUserView == [id |-> NullId, name |-> Null, banned |-> Null, email |-> Null]
EmptyForm == [theme |-> Null, show_nsfw |-> Null, avatar |-> Null, email |-> Null]

\* The emptyState field initialiser, after the constructor's two writes
\* through the aliased this.state (user_id, username).
EmptyState(target, params) ==
  [user |-> NullUserView,
   user_id |-> target.user_id,
   username |-> target.username,
   follows |-> << >>, moderates |-> << >>, comments |-> << >>, posts |-> << >>,
   admins |-> << >>,
   loading |-> TRUE,
   avatarLoading |-> FALSE,
   view |-> getViewFromProps(params),
   sort |-> getSortTypeFromProps(params),
   page |-> getPageFromProps(params),
   userSettingsLoading |-> Null,
   deleteAccountLoading |-> Null,
   deleteAccountShowConfirm |-> FALSE]

\* Mutant: any logged-in user counts as the page's user.
isCurrentUserAnyLogin(s) == me.id # NullId

isCurrentUser(s) == me.id # NullId /\ me.id = s.user.id

\* Mutant: the form always asks for the first page.
GetUserDetailsFormFirstPage(s) ==
  [user_id |-> s.user_id, username |-> s.username, sort |-> s.sort,
   saved_only |-> (s.view = "Saved"), page |-> 1, limit |-> fetchLimit]

\* Mutant: the form never asks for the saved items only.
GetUserDetailsFormNeverSaved(s) ==
  [user_id |-> s.user_id, username |-> s.username, sort |-> s.sort,
   saved_only |-> FALSE, page |-> s.page, limit |-> fetchLimit]

\* refetch builds this form from the state at the moment of the call.
GetUserDetailsForm(s) ==
  [user_id |-> s.user_id, username |-> s.username, sort |-> s.sort,
   saved_only |-> (s.view = "Saved"), page |-> s.page, limit |-> fetchLimit]

\* updateUrl pushes /u/<name>/view/<view>/sort/<sort>/page/<page>.
Path(s) == [name |-> s.user.name, view |-> s.view, sort |-> s.sort, page |-> s.page]

IndexOfId(items, id) ==
  IF \E k \in 1..Len(items) : items[k].id = id
  THEN CHOOSE k \in 1..Len(items) :
         items[k].id = id /\ \A j \in 1..(k - 1) : items[j].id # id
  ELSE 0

\* utils.editCommentRes: find the comment by id, copy the edited fields.
editCommentRes(data, comments) ==
  LET k == IndexOfId(comments, data.comment.id) IN
  IF k = 0 THEN comments
  ELSE [comments EXCEPT ![k].content = data.comment.content,
                        ![k].score = data.comment.score]

\* utils.saveCommentRes: find the comment by id, copy the saved field.
saveCommentRes(data, comments) ==
  LET k == IndexOfId(comments, data.comment.id) IN
  IF k = 0 THEN comments ELSE [comments EXCEPT ![k].saved = data.comment.saved]

\* utils.createCommentLikeRes: find the comment by id, copy the score.
createCommentLikeRes(data, comments) ==
  LET k == IndexOfId(comments, data.comment.id) IN
  IF k = 0 THEN comments ELSE [comments EXCEPT ![k].score = data.comment.score]

\* utils.createPostLikeFindRes: find the post by id, copy the score.
createPostLikeFindRes(data, posts) ==
  LET k == IndexOfId(posts, data.post.id) IN
  IF k = 0 THEN posts ELSE [posts EXCEPT ![k].score = data.post.score]

\* Mutant: the filter compares the item's own id with the banned user's id.
BanItemsByItemId(items, data) ==
  [k \in 1..Len(items) |->
     IF items[k].id = data.user.id
     THEN [items[k] EXCEPT !.banned = data.banned]
     ELSE items[k]]

\* The BanUser branch's filter(...).forEach(c => c.banned = data.banned).
BanItems(items, data) ==
  [k \in 1..Len(items) |->
     IF items[k].creator_id = data.user.id
     THEN [items[k] EXCEPT !.banned = data.banned]
     ELSE items[k]]

\* Mutant: the branch keeps the snapshot of an earlier response.
LoadStateKeepsSnapshot(s, data) ==
  [s EXCEPT !.user = IF @.id = NullId THEN data.user ELSE @,
            !.comments = data.comments, !.follows = data.follows,
            !.moderates = data.moderates, !.posts = data.posts, !.admins = data.admins,
            !.loading = FALSE]

\* Mutant: the branch forgets this.state.posts.
LoadStateWithoutPosts(s, data) ==
  [s EXCEPT !.user = data.user, !.comments = data.comments, !.follows = data.follows,
            !.moderates = data.moderates, !.admins = data.admins, !.loading = FALSE]

\* The GetUserDetails branch's assignments to this.state.
LoadState(s, data) ==
  [s EXCEPT !.user = data.user, !.comments = data.comments, !.follows = data.follows,
            !.moderates = data.moderates, !.posts = data.posts, !.admins = data.admins,
            !.loading = FALSE]

\* The settings-form seeding of the GetUserDetails branch (s is the state
\* after the assignments above).
SeedForm(form, s) ==
  IF isCurrentUser(s)
  THEN [form EXCEPT !.show_nsfw = me.show_nsfw,
                    !.theme = IF me.theme # Null THEN me.theme ELSE "darkly",
                    !.avatar = me.avatar,
                    !.email = s.user.email]
  ELSE form

\* Mutant: the comment branches add the payload's comment when the page
\* does not hold it.
ItemUpdateInsertsMissing(s, op, data) ==
  IF op = "CreatePostLike" THEN [s EXCEPT !.posts = createPostLikeFindRes(data, @)]
  ELSE IF IndexOfId(s.comments, data.comment.id) = 0
       THEN [s EXCEPT !.comments = << data.comment >> \o @]
  ELSE IF op = "EditComment" THEN [s EXCEPT !.comments = editCommentRes(data, @)]
  ELSE IF op = "SaveComment" THEN [s EXCEPT !.comments = saveCommentRes(data, @)]
  ELSE [s EXCEPT !.comments = createCommentLikeRes(data, @)]

\* The four branches that hand the payload to a utils reconciler:
\* EditComment, SaveComment and CreateCommentLike with this.state.comments,
\* CreatePostLike with this.state.posts.
ItemUpdate(s, op, data) ==
  IF op = "EditComment" THEN [s EXCEPT !.comments = editCommentRes(data, @)]
  ELSE IF op = "SaveComment" THEN [s EXCEPT !.comments = saveCommentRes(data, @)]
  ELSE IF op = "CreateCommentLike" THEN [s EXCEPT !.comments = createCommentLikeRes(data, @)]
  ELSE [s EXCEPT !.posts = createPostLikeFindRes(data, @)]

\* Mutant: the AddAdmin branch appends the payload's admins to the held ones.
AddAdminStateAppends(s, data) == [s EXCEPT !.admins = @ \o data.admins]

\* The AddAdmin branch: this.state.admins = data.admins.
AddAdminState(s, data) == [s EXCEPT !.admins = data.admins]

\* Mutant: a ban of the page's user is also written to the snapshot.
BanStateAlsoTarget(s, data) ==
  [s EXCEPT !.comments = BanItems(@, data), !.posts = BanItems(@, data),
            !.user = IF @.id = data.user.id
                     THEN [@ EXCEPT !.banned = IF data.banned THEN JsTrue ELSE JsFalse]
                     ELSE @]

\* The BanUser branch: both collections, by creator.
BanState(s, data) ==
  [s EXCEPT !.comments = BanItems(@, data), !.posts = BanItems(@, data)]

\* Mutant: every error key navigates away.
NavigatesAwayOnAnyError(error) == error # Null

\* The error branch pushes '/' for this one key.
NavigatesAway(error) == error = FatalError

\* Mutant: take lets one more notification through before it completes.
TakeCompletesLate(count) == count > RetryLimit

\* Mutant: take never completes.
TakeNeverCompletes(count) == count < 0

\* Mutant: take completes one notification early.
TakeCompletesEarly(count) == count >= RetryLimit - 1

\* take(10) completes once it has passed on its tenth notification.
TakeCompletes(count) == count >= RetryLimit

\* Mutant: the error branch also ends the loading state.
ClearBusyAndLoading(s) ==
  [s EXCEPT !.deleteAccountLoading = JsFalse, !.avatarLoading = FALSE,
            !.userSettingsLoading = JsFalse, !.loading = FALSE]

\* Mutant: the error branch also closes the delete confirmation.
ClearBusyAndConfirm(s) ==
  [s EXCEPT !.deleteAccountLoading = JsFalse, !.avatarLoading = FALSE,
            !.userSettingsLoading = JsFalse, !.deleteAccountShowConfirm = FALSE]

\* Mutant: the error branch leaves the deletion flag alone.
ClearBusyKeepsDelete(s) ==
  [s EXCEPT !.avatarLoading = FALSE, !.userSettingsLoading = JsFalse]

\* Mutant: the error branch leaves the upload flag alone.
ClearBusyKeepsAvatar(s) ==
  [s EXCEPT !.deleteAccountLoading = JsFalse, !.userSettingsLoading = JsFalse]

\* The error branch's three flag writes.
ClearBusy(s) ==
  [s EXCEPT !.deleteAccountLoading = JsFalse, !.avatarLoading = FALSE,
            !.userSettingsLoading = JsFalse]

\* Mutant: the DeleteAccount branch clears every busy flag.
DeleteAccountStateClearsAll(s) ==
  [s EXCEPT !.deleteAccountLoading = JsFalse, !.deleteAccountShowConfirm = FALSE,
            !.avatarLoading = FALSE, !.userSettingsLoading = JsFalse]

\* The DeleteAccount branch's two writes.
DeleteAccountState(s) ==
  [s EXCEPT !.deleteAccountLoading = JsFalse, !.deleteAccountShowConfirm = FALSE]

\* overview(): the held comments and posts, each wrapped with its type, in
\* one new array (comments first), sorted by the comparator the sort mode
\* selects.  localeCompare on the published timestamps orders them as the
\* integers that stand for them here.
Tagged(type, items) == [k \in 1..Len(items) |-> [type_ |-> type, data |-> items[k]]]

\* a sorts strictly before b: the comparator (a, b) is negative.
SortsBefore(sort, a, b) ==
  IF sort = "New" THEN a.data.published > b.data.published
  ELSE a.data.score > b.data.score

\* Array.prototype.sort with that comparator (stable): x goes in front of
\* the first element it sorts strictly before.
InsertSorted(sort, seq, x) ==
  LET hits == { k \in 1..Len(seq) : SortsBefore(sort, x, seq[k]) }
      at == IF hits = {} THEN Len(seq) + 1
            ELSE CHOOSE k \in hits : \A j \in hits : k <= j
  IN SubSeq(seq, 1, at - 1) \o << x >> \o SubSeq(seq, at, Len(seq))

RECURSIVE SortCombined(_, _)
SortCombined(sort, seq) ==
  IF seq = << >> THEN << >>
  ELSE InsertSorted(sort, SortCombined(sort, SubSeq(seq, 1, Len(seq) - 1)), seq[Len(seq)])

\* Mutant: the combined array is always sorted by publication time.
overviewAlwaysNew(s) ==
  [combined |-> SortCombined("New", Tagged("comments", s.comments) \o Tagged("posts", s.posts)),
   comments |-> s.comments, posts |-> s.posts]

\* overview() on state s: the combined array it renders, and the two held
\* arrays as the call leaves them (map builds new arrays; sort works on
\* combined only).
overview(s) ==
  [combined |-> SortCombined(s.sort, Tagged("comments", s.comments) \o Tagged("posts", s.posts)),
   comments |-> s.comments, posts |-> s.posts]

\* ------------------------------------------------------------------- Init
Init ==
  \E target \in RouteTargets, params \in RouteParams, u \in {NoUser, MeA, MeB} :
    /\ state = EmptyState(target, params)
    /\ emptyState = state
    /\ aliased = TRUE
    /\ shared = ArrayFields
    /\ userSettingsForm = EmptyForm
    /\ deleteAccountForm = [password |-> Null]
    /\ me = u
    /\ pending = [GetUserDetails |-> 1, SaveUserSettings |-> 0, DeleteAccount |-> 0,
                  avatar |-> 0]
    /\ sent = GetUserDetailsForm(state)
    /\ location = [name |-> Null, view |-> Null, sort |-> Null, page |-> NullId]
    /\ out = [toast |-> Null, nav |-> FALSE]
    /\ last = [h |-> "constructor", msg |-> NoMsg]
    /\ subscription = "subscribed"
    /\ takeCount = 0
    /\ observed = [error |-> 0, complete |-> 0]
    /\ sinceDispatch = 0


\* ------------------------------------------------------- shared pieces
\* this.setState(this.state) after the handler wrote s through this.state:
\* the library installs a shallow copy as the new this.state.  Writes made
\* while this.state was the emptyState object are writes to emptyState;
\* in-place item writes reach emptyState through every array still shared.
\* reassigned: the array fields the handler assigned a new array to.
SetState(s, reassigned) ==
  /\ state' = s
  /\ emptyState' =
       IF aliased THEN s
       ELSE [emptyState EXCEPT
               !.comments = IF "comments" \in shared \ reassigned THEN s.comments ELSE @,
               !.posts = IF "posts" \in shared \ reassigned THEN s.posts ELSE @]
  /\ shared' = IF aliased THEN ArrayFields ELSE shared \ reassigned
  /\ aliased' = FALSE

\* A handler that neither writes this.state nor calls setState.
NoStateChange == UNCHANGED << state, emptyState, aliased, shared >>

\* refetch(): build the form and hand it to WebSocketService.getUserDetails.
refetch(s) ==
  /\ sent' = GetUserDetailsForm(s)
  /\ pending' = [pending EXCEPT !.GetUserDetails = @ + 1]

\* Mutant: the path is built before the handler's write of the page index.
updateUrlStalePage(s) == location' = [Path(s) EXCEPT !.page = state.page]

updateUrl(s) == location' = Path(s)

Mounted == subscription # "unsubscribed"
\* render() shows the selects, the paginator and the side bar only when
\* loading is false; the settings card only for the current user.
Rendered == Mounted /\ ~state.loading
SettingsRendered == Rendered /\ isCurrentUser(state)

StreamUnchanged == UNCHANGED << subscription, takeCount, observed, sinceDispatch >>
Quiet == out' = [toast |-> Null, nav |-> FALSE]
Ran(h) == last' = [h |-> h, msg |-> NoMsg]

\* ------------------------------------------------------- view parameters
nextPage ==
  /\ Rendered /\ state.page < MaxPage /\ pending.GetUserDetails < MaxPending
  /\ LET s == [state EXCEPT !.page = @ + 1] IN
       SetState(s, {}) /\ updateUrl(s) /\ refetch(s)
  /\ Quiet /\ Ran("nextPage") /\ StreamUnchanged
  /\ UNCHANGED << userSettingsForm, deleteAccountForm, me >>

\* Mutant: the paginator offers Prev on every page.
prevPageOnEveryPage ==
  /\ Rendered /\ state.page > 0 /\ pending.GetUserDetails < MaxPending
  /\ LET s == [state EXCEPT !.page = @ - 1] IN
       SetState(s, {}) /\ updateUrl(s) /\ refetch(s)
  /\ Quiet /\ Ran("prevPage") /\ StreamUnchanged
  /\ UNCHANGED << userSettingsForm, deleteAccountForm, me >>

prevPage ==
  /\ Rendered /\ state.page > 1 /\ pending.GetUserDetails < MaxPending
  /\ LET s == [state EXCEPT !.page = @ - 1] IN
       SetState(s, {}) /\ updateUrl(s) /\ refetch(s)
  /\ Quiet /\ Ran("prevPage") /\ StreamUnchanged
  /\ UNCHANGED << userSettingsForm, deleteAccountForm, me >>

\* Mutant: the handler forgets this.state.page = 1.
handleSortChangeKeepsPage(val) ==
  /\ Rendered /\ pending.GetUserDetails < MaxPending
  /\ LET s == [state EXCEPT !.sort = val] IN
       SetState(s, {}) /\ updateUrl(s) /\ refetch(s)
  /\ Quiet /\ Ran("handleSortChange") /\ StreamUnchanged
  /\ UNCHANGED << userSettingsForm, deleteAccountForm, me >>

handleSortChange(val) ==
  /\ Rendered /\ pending.GetUserDetails < MaxPending
  /\ LET s == [state EXCEPT !.sort = val, !.page = 1] IN
       SetState(s, {}) /\ updateUrl(s) /\ refetch(s)
  /\ Quiet /\ Ran("handleSortChange") /\ StreamUnchanged
  /\ UNCHANGED << userSettingsForm, deleteAccountForm, me >>

handleViewChange(val) ==
  /\ Rendered /\ pending.GetUserDetails < MaxPending
  /\ LET s == [state EXCEPT !.view = val, !.page = 1] IN
       SetState(s, {}) /\ updateUrl(s) /\ refetch(s)
  /\ Quiet /\ Ran("handleViewChange") /\ StreamUnchanged
  /\ UNCHANGED << userSettingsForm, deleteAccountForm, me >>

\* Mutant: the handler re-hydrates view and sort but not the page index.
componentWillReceivePropsKeepsPage(action, params) ==
  /\ Mounted /\ pending.GetUserDetails < MaxPending
  /\ IF action \in {"POP", "PUSH"}
     THEN LET s == [state EXCEPT !.view = getViewFromProps(params),
                                 !.sort = getSortTypeFromProps(params)] IN
            SetState(s, {}) /\ refetch(s)
     ELSE NoStateChange /\ UNCHANGED << sent, pending >>
  /\ Quiet /\ StreamUnchanged
  /\ last' = [h |-> "componentWillReceiveProps", msg |-> NoMsg,
              nextProps |-> [action |-> action, params |-> params]]
  /\ UNCHANGED << userSettingsForm, deleteAccountForm, me, location >>

componentWillReceiveProps(action, params) ==
  /\ Mounted /\ pending.GetUserDetails < MaxPending
  /\ IF action \in {"POP", "PUSH"}
     THEN LET s == [state EXCEPT !.view = getViewFromProps(params),
                                 !.sort = getSortTypeFromProps(params),
                                 !.page = getPageFromProps(params)] IN
            SetState(s, {}) /\ refetch(s)
     ELSE NoStateChange /\ UNCHANGED << sent, pending >>
  /\ Quiet /\ StreamUnchanged
  /\ last' = [h |-> "componentWillReceiveProps", msg |-> NoMsg,
              nextProps |-> [action |-> action, params |-> params]]
  /\ UNCHANGED << userSettingsForm, deleteAccountForm, me, location >>

\* Mutant: the teardown forgets this.subscription.unsubscribe().
componentWillUnmountKeepsSubscription ==
  /\ Mounted /\ last.h # "componentWillUnmount"
  /\ Quiet /\ Ran("componentWillUnmount") /\ NoStateChange
  /\ UNCHANGED << userSettingsForm, deleteAccountForm, me, pending, sent, location,
                  subscription, takeCount, observed, sinceDispatch >>

componentWillUnmount ==
  /\ Mounted
  /\ subscription' = "unsubscribed"
  /\ Quiet /\ Ran("componentWillUnmount") /\ NoStateChange
  /\ UNCHANGED << userSettingsForm, deleteAccountForm, me, pending, sent, location,
                  takeCount, observed, sinceDispatch >>


\* ------------------------------------------------------------- settings
handleUserSettingsThemeChange(val) ==
  /\ SettingsRendered
  /\ userSettingsForm' = [userSettingsForm EXCEPT !.theme = val]
  /\ SetState(state, {})
  /\ Quiet /\ Ran("handleUserSettingsThemeChange") /\ StreamUnchanged
  /\ UNCHANGED << deleteAccountForm, me, pending, sent, location >>

handleImageUpload ==
  /\ SettingsRendered /\ pending.avatar < MaxPending
  /\ SetState([state EXCEPT !.avatarLoading = TRUE], {})
  /\ pending' = [pending EXCEPT !.avatar = @ + 1]
  /\ Quiet /\ Ran("handleImageUpload") /\ StreamUnchanged
  /\ UNCHANGED << userSettingsForm, deleteAccountForm, me, sent, location >>

\* The then/catch continuations of the upload's fetch: res.msg == 'ok',
\* any other msg, or a rejected promise.
UploadOutcomes == {"ok", "not_ok", "rejected"}
\* Mutant: only the 'ok' continuation clears the flag.
handleImageUploadDoneBusyOnFailure(res) ==
  /\ pending.avatar > 0
  /\ pending' = [pending EXCEPT !.avatar = @ - 1]
  /\ userSettingsForm' =
       IF res = "ok" THEN [userSettingsForm EXCEPT !.avatar = "/pictrs/image/h2"]
       ELSE userSettingsForm
  /\ SetState([state EXCEPT !.avatarLoading = (res # "ok" /\ @)], {})
  /\ out' = [toast |-> IF res = "ok" THEN Null ELSE res, nav |-> FALSE]
  /\ Ran("handleImageUploadDone") /\ StreamUnchanged
  /\ UNCHANGED << deleteAccountForm, me, sent, location >>

handleImageUploadDone(res) ==
  /\ pending.avatar > 0
  /\ pending' = [pending EXCEPT !.avatar = @ - 1]
  /\ userSettingsForm' =
       IF res = "ok" THEN [userSettingsForm EXCEPT !.avatar = "/pictrs/image/h2"]
       ELSE userSettingsForm
  /\ SetState([state EXCEPT !.avatarLoading = FALSE], {})
  /\ out' = [toast |-> IF res = "ok" THEN Null ELSE res, nav |-> FALSE]
  /\ Ran("handleImageUploadDone") /\ StreamUnchanged
  /\ UNCHANGED << deleteAccountForm, me, sent, location >>

handleUserSettingsSubmit ==
  /\ SettingsRendered /\ pending.SaveUserSettings < MaxPending
  /\ SetState([state EXCEPT !.userSettingsLoading = JsTrue], {})
  /\ pending' = [pending EXCEPT !.SaveUserSettings = @ + 1]
  /\ Quiet /\ Ran("handleUserSettingsSubmit") /\ StreamUnchanged
  /\ UNCHANGED << userSettingsForm, deleteAccountForm, me, sent, location >>

handleDeleteAccountShowConfirmToggle ==
  /\ SettingsRendered
  /\ SetState([state EXCEPT !.deleteAccountShowConfirm = ~@], {})
  /\ Quiet /\ Ran("handleDeleteAccountShowConfirmToggle") /\ StreamUnchanged
  /\ UNCHANGED << userSettingsForm, deleteAccountForm, me, pending, sent, location >>

handleDeleteAccountPasswordChange(val) ==
  /\ SettingsRendered /\ state.deleteAccountShowConfirm
  /\ deleteAccountForm' = [password |-> val]
  /\ SetState(state, {})
  /\ Quiet /\ Ran("handleDeleteAccountPasswordChange") /\ StreamUnchanged
  /\ UNCHANGED << userSettingsForm, me, pending, sent, location >>

\* Mutant: the delete button is never disabled.
handleDeleteAccountAnyPassword ==
  /\ SettingsRendered /\ state.deleteAccountShowConfirm
  /\ pending.DeleteAccount < MaxPending
  /\ SetState([state EXCEPT !.deleteAccountLoading = JsTrue], {})
  /\ pending' = [pending EXCEPT !.DeleteAccount = @ + 1]
  /\ Quiet /\ Ran("handleDeleteAccount") /\ StreamUnchanged
  /\ UNCHANGED << userSettingsForm, deleteAccountForm, me, sent, location >>

\* The delete button is rendered disabled while the password is falsy.
handleDeleteAccount ==
  /\ SettingsRendered /\ state.deleteAccountShowConfirm
  /\ deleteAccountForm.password \notin {Null, ""}
  /\ pending.DeleteAccount < MaxPending
  /\ SetState([state EXCEPT !.deleteAccountLoading = JsTrue], {})
  /\ pending' = [pending EXCEPT !.DeleteAccount = @ + 1]
  /\ Quiet /\ Ran("handleDeleteAccount") /\ StreamUnchanged
  /\ UNCHANGED << userSettingsForm, deleteAccountForm, me, sent, location >>

\* ---------------------------------------------------------- parseMessage
\* What the server and the channel can deliver in the current state.
Deliverable(msg) ==
  \/ msg \in Pushes
  \/ msg \in LoadResponses /\ pending.GetUserDetails > 0
  \/ msg \in SaveResponses /\ pending.SaveUserSettings > 0
  \/ msg \in DeleteResponses /\ pending.DeleteAccount > 0

\* pending once the answer msg has been taken off the wire.
Answered(msg) ==
  IF msg \in LoadResponses \cup SaveResponses \cup DeleteResponses
  THEN [pending EXCEPT ![msg.op] = @ - 1]
  ELSE pending

\* Mutant: emptyState is a fresh object holding the field initialiser's
\* values, the constructor's writes of user_id and username not among them.
ResetStateToInitialiser ==
  LET s == [emptyState EXCEPT !.userSettingsLoading = JsFalse,
                              !.user_id = NullId, !.username = Null] IN
  /\ state' = s
  /\ emptyState' = s
  /\ shared' = ArrayFields
  /\ aliased' = FALSE

\* this.state = this.emptyState; this.state.userSettingsLoading = false;
\* this.setState(this.state): the flag is written to the emptyState object.
ResetState ==
  LET s == [emptyState EXCEPT !.userSettingsLoading = JsFalse] IN
  /\ state' = s
  /\ emptyState' = s
  /\ shared' = ArrayFields
  /\ aliased' = FALSE

\* Mutant: a trailing else treats the envelope as the end of a load.
NoBranchStopsLoading ==
  /\ SetState([state EXCEPT !.loading = FALSE], {})
  /\ Quiet /\ UNCHANGED << sent, pending >>

\* The if / else-if chain ends without an else: an operation none of its
\* tests names runs no statement.
NoBranch ==
  /\ NoStateChange
  /\ Quiet /\ UNCHANGED << sent, pending >>

parseMessage(msg) ==
  /\ subscription = "subscribed"
  /\ Deliverable(msg)
  /\ last' = [h |-> "parseMessage", msg |-> msg]
  /\ UNCHANGED << subscription, takeCount, observed >>
  /\ sinceDispatch' = 0
  /\ UNCHANGED << deleteAccountForm, location >>
  /\ IF msg.error # Null THEN
       /\ SetState(ClearBusy(state), {})
       /\ out' = [toast |-> msg.error, nav |-> NavigatesAway(msg.error)]
       /\ pending' = Answered(msg)
       /\ UNCHANGED << userSettingsForm, me, sent >>
     ELSE IF msg.reconnect THEN
       /\ pending.GetUserDetails < MaxPending
       /\ refetch(state)
       /\ NoStateChange /\ Quiet
       /\ UNCHANGED << userSettingsForm, me >>
     ELSE IF msg.op = "GetUserDetails" THEN
       /\ SetState(LoadState(state, msg.data), ArrayFields)
       /\ userSettingsForm' = SeedForm(userSettingsForm, LoadState(state, msg.data))
       /\ pending' = Answered(msg)
       /\ Quiet /\ UNCHANGED << me, sent >>
     ELSE IF msg.op = "CreateComment" THEN
       /\ out' = [toast |-> IF me.id # NullId /\ msg.data.comment.creator_id = me.id
                            THEN "reply_sent" ELSE Null,
                  nav |-> FALSE]
       /\ pending' = Answered(msg)
       /\ NoStateChange /\ UNCHANGED << userSettingsForm, me, sent >>
     ELSE IF msg.op \in {"EditComment", "SaveComment", "CreateCommentLike", "CreatePostLike"} THEN
       /\ SetState(ItemUpdate(state, msg.op, msg.data), {})
       /\ pending' = Answered(msg)
       /\ Quiet /\ UNCHANGED << userSettingsForm, me, sent >>
     ELSE IF msg.op = "BanUser" THEN
       /\ SetState(BanState(state, msg.data), {})
       /\ pending' = Answered(msg)
       /\ Quiet /\ UNCHANGED << userSettingsForm, me, sent >>
     ELSE IF msg.op = "AddAdmin" THEN
       /\ SetState(AddAdminState(state, msg.data), {})
       /\ pending' = Answered(msg)
       /\ Quiet /\ UNCHANGED << userSettingsForm, me, sent >>
     ELSE IF msg.op = "SaveUserSettings" THEN
       /\ ResetState
       /\ me' = msg.data
       /\ pending' = Answered(msg)
       /\ Quiet /\ UNCHANGED << userSettingsForm, sent >>
     ELSE IF msg.op = "DeleteAccount" THEN
       /\ SetState(DeleteAccountState(state), {})
       /\ out' = [toast |-> Null, nav |-> TRUE]
       /\ pending' = Answered(msg)
       /\ UNCHANGED << userSettingsForm, me, sent >>
     ELSE
       /\ NoBranch
       /\ UNCHANGED << userSettingsForm, me >>

\* --------------------------------------- retryWhen(delay(3000), take(10))
\* The shared stream errors (the connection closed abnormally): retryWhen
\* unsubscribes from the source and feeds the error to delay(3000).
\* Mutant: the notifier has no delay: the error resubscribes at once.
streamErrorRetriesAtOnce ==
  /\ subscription = "subscribed" /\ ~TakeCompletes(takeCount + 1)
  /\ takeCount' = takeCount + 1
  /\ sinceDispatch' = sinceDispatch + 1
  /\ Quiet /\ Ran("streamError") /\ NoStateChange
  /\ UNCHANGED << userSettingsForm, deleteAccountForm, me, pending, sent, location,
                  subscription, observed >>

streamError ==
  /\ subscription = "subscribed"
  /\ subscription' = "delaying"
  /\ sinceDispatch' = sinceDispatch + 1
  /\ Quiet /\ Ran("streamError") /\ NoStateChange
  /\ UNCHANGED << userSettingsForm, deleteAccountForm, me, pending, sent, location,
                  takeCount, observed >>

\* The 3000 ms are over: take counts the notification and passes it on, which
\* resubscribes to the source; on the RetryLimit-th it then completes, and
\* retryWhen completes the subscriber and releases the source again.
retryDelayElapsed ==
  /\ subscription = "delaying"
  /\ takeCount' = takeCount + 1
  /\ IF TakeCompletes(takeCount + 1)
     THEN /\ subscription' = "complete"
          /\ observed' = [observed EXCEPT !.complete = @ + 1]
     ELSE subscription' = "subscribed" /\ UNCHANGED observed
  /\ Quiet /\ Ran("retryDelayElapsed") /\ NoStateChange
  /\ UNCHANGED << userSettingsForm, deleteAccountForm, me, pending, sent, location,
                  sinceDispatch >>

\* ---------------------------------------------------------- specification
Next ==
  \/ nextPage
  \/ prevPage
  \/ \E val \in Sorts : handleSortChange(val)
  \/ \E val \in Views : handleViewChange(val)
  \/ \E action \in {"POP", "PUSH", "REPLACE"}, params \in RouteParams :
       componentWillReceiveProps(action, params)
  \/ componentWillUnmount
  \/ \E val \in {"litera"} : handleUserSettingsThemeChange(val)
  \/ handleImageUpload
  \/ \E res \in UploadOutcomes : handleImageUploadDone(res)
  \/ handleUserSettingsSubmit
  \/ handleDeleteAccountShowConfirmToggle
  \/ \E val \in {"", "pw"} : handleDeleteAccountPasswordChange(val)
  \/ handleDeleteAccount
  \/ \E msg \in Pushes \cup LoadResponses \cup SaveResponses \cup DeleteResponses :
       parseMessage(msg)
  \/ streamError
  \/ retryDelayElapsed

Spec == Init /\ [][Next]_vars


\* The page activated at /u/id/1 with no view, sort or page parameter.
InitDefaultParams ==
  Init /\ state.view = "Overview" /\ state.sort = "New" /\ state.page = 1
InitDefaultRoute == InitDefaultParams /\ state.user_id = 1

\* The busy flags: the three mutating actions of the settings card, the
\* envelopes that answer them and the errors of the shared channel.
FlagMsgs ==
  LoadResponses \cup SaveResponses \cup DeleteResponses
  \cup { m \in Pushes : m.error # Null }
NextFlags ==
  \/ handleImageUpload
  \/ \E res \in UploadOutcomes : handleImageUploadDone(res)
  \/ handleUserSettingsSubmit
  \/ handleDeleteAccountShowConfirmToggle
  \/ \E val \in {"", "pw"} : handleDeleteAccountPasswordChange(val)
  \/ handleDeleteAccount
  \/ \E msg \in FlagMsgs : parseMessage(msg)
SpecFlags == InitDefaultRoute /\ [][NextFlags]_vars

\* Loads, edits of the settings draft and of the held items, the admin-list
\* push, and the settings save with its reset.
SettingsMsgs ==
  LoadResponses \cup SaveResponses
  \cup { m \in Pushes : m.error = Null /\
           \/ m.op \in {"AddAdmin", Null}
           \/ m.op = "EditComment" /\ m.data.comment.id = 1 }
NextSettings ==
  \/ \E val \in {"litera"} : handleUserSettingsThemeChange(val)
  \/ handleUserSettingsSubmit
  \/ \E msg \in SettingsMsgs : parseMessage(msg)
SpecSettings == InitDefaultRoute /\ [][NextSettings]_vars

\* The content collections and every envelope that reconciles into them.
ContentMsgs ==
  LoadResponses
  \cup { m \in Pushes : m.error = Null /\ m.op \in {"EditComment", "SaveComment", "CreateCommentLike", "CreatePostLike",
                      "BanUser", Null} }
NextContent ==
  \/ \E msg \in ContentMsgs : parseMessage(msg)
SpecContent == InitDefaultRoute /\ [][NextContent]_vars

\* The view parameters, the requests they send and the loads that answer.
ParamMsgs == LoadResponses \cup { m \in Pushes : m.reconnect \/ m.op = "GetSite" }
NextParams ==
  \/ nextPage
  \/ prevPage
  \/ \E val \in Sorts : handleSortChange(val)
  \/ \E val \in Views : handleViewChange(val)
  \/ \E action \in {"POP", "PUSH", "REPLACE"}, params \in RouteParams :
       componentWillReceiveProps(action, params)
  \/ \E msg \in ParamMsgs : parseMessage(msg)
SpecParams == InitDefaultParams /\ [][NextParams]_vars

\* The subscription pipeline under stream errors.
RetryMsgs == LoadResponses \cup { m \in Pushes : m.reconnect \/ m.op = "AddAdmin" }
NextRetry ==
  \/ streamError
  \/ retryDelayElapsed
  \/ \E msg \in RetryMsgs : parseMessage(msg)
  \/ componentWillUnmount
SpecRetry == InitDefaultRoute /\ [][NextRetry]_vars


\* The target selectors over loads, a settings save with its reset, a
\* reconnect advisory and the paginator, for both ways the route names the
\* target.
TargetMsgs ==
  LoadResponses \cup SaveResponses \cup { m \in Pushes : m.reconnect /\ m.op = Null }
NextTarget ==
  \/ nextPage
  \/ prevPage
  \/ handleUserSettingsSubmit
  \/ \E msg \in TargetMsgs : parseMessage(msg)
SpecTarget == InitDefaultParams /\ [][NextTarget]_vars


\* The loading flag over every kind of step: loads and their errors, an
\* error of a foreign operation, the reconnect advisory, an admin-list push,
\* the paginator and the sort select, and a settings save with its reset.
LoadingMsgs ==
  LoadResponses \cup SaveResponses
  \cup { m \in Pushes : \/ m.reconnect /\ m.op = Null
                        \/ m.error = "couldnt_like_comment"
                        \/ m.op = "AddAdmin" }
NextLoading ==
  \/ nextPage
  \/ \E val \in Sorts : handleSortChange(val)
  \/ handleUserSettingsSubmit
  \/ \E msg \in LoadingMsgs : parseMessage(msg)
SpecLoading == InitDefaultRoute /\ [][NextLoading]_vars


\* ================================================================ claims
IsEnvelopeStep == last.h = "parseMessage"
IsErrorStep == IsEnvelopeStep /\ last.msg.error # Null
IsSuccessStep(op) ==
  IsEnvelopeStep /\ last.msg.error = Null /\ ~last.msg.reconnect /\ last.msg.op = op

\* C1 (as stated): each action busy flag (avatar upload, settings save,
\* account deletion) is true if and only if a request for that action has
\* been sent and no terminal response for it has yet been processed.
C1_BusyIffOutstanding ==
  /\ state.avatarLoading <=> pending.avatar > 0
  /\ Truthy(state.userSettingsLoading) <=> pending.SaveUserSettings > 0
  /\ Truthy(state.deleteAccountLoading) <=> pending.DeleteAccount > 0

\* C1 (amended): a busy flag is true only if a request for its action has
\* been sent and not yet answered; the converse fails, because an error
\* envelope of any operation, a settings-save reset and the answer to an
\* earlier duplicate request clear a flag while a request is outstanding.
C1_BusyOnlyIfOutstanding ==
  /\ state.avatarLoading => pending.avatar > 0
  /\ Truthy(state.userSettingsLoading) => pending.SaveUserSettings > 0
  /\ Truthy(state.deleteAccountLoading) => pending.DeleteAccount > 0

\* C1 witness: all three flags are up, each with its request outstanding.
C1_Witness ==
  /\ state.avatarLoading /\ pending.avatar > 0
  /\ Truthy(state.userSettingsLoading) /\ pending.SaveUserSettings > 0
  /\ Truthy(state.deleteAccountLoading) /\ pending.DeleteAccount > 0

\* C2: after an envelope whose error field is set has been processed,
\* whatever its operation tag, the three busy flags are false and the error
\* key has been handed to toast.
C2_ErrorClearsBusyAndToasts ==
  IsErrorStep =>
    /\ state.avatarLoading = FALSE
    /\ state.userSettingsLoading = JsFalse
    /\ state.deleteAccountLoading = JsFalse
    /\ out.toast = last.msg.error

\* C2 witness: an error of a foreign operation was processed while an
\* upload, a save and a deletion were all outstanding.
C2_Witness ==
  /\ IsErrorStep /\ last.msg.op = "CreateCommentLike"
  /\ pending.avatar > 0 /\ pending.SaveUserSettings > 0 /\ pending.DeleteAccount > 0

\* C3: an error envelope navigates away exactly when its key is
\* couldnt_find_that_username_or_email; after any other key there is no
\* navigation, the page is still subscribed and a further envelope can be
\* dispatched.
C3_OnlyFatalKeyNavigates ==
  IsErrorStep =>
    /\ out.nav <=> (last.msg.error = FatalError)
    /\ last.msg.error # FatalError =>
         /\ subscription = "subscribed"
         /\ ENABLED parseMessage(Env("BanUser", [user |-> [id |-> 1], banned |-> TRUE],
                                     Null, FALSE))

\* C3 witness: a non-fatal error was processed on the rendered page and no
\* navigation was signalled.
C3_Witness ==
  /\ IsErrorStep /\ last.msg.error = "password_incorrect"
  /\ ~out.nav /\ ~state.loading /\ subscription = "subscribed"


\* C4: processing an envelope with no error and the reconnect advisory set
\* sends exactly one load request, built from the target, sort mode, view
\* category and page index currently selected, and changes no ViewModel
\* field, even when the envelope also carries an operation tag and payload.
C4_ReconnectRefetchesOnly ==
  [][ (last'.h = "parseMessage" /\ last'.msg.error = Null /\ last'.msg.reconnect) =>
        /\ pending' = [pending EXCEPT !.GetUserDetails = @ + 1]
        /\ sent'.user_id = state.user_id /\ sent'.username = state.username
        /\ sent'.sort = state.sort /\ sent'.page = state.page
        /\ sent'.saved_only = (state.view = "Saved")
        /\ sent'.limit = fetchLimit
        /\ state' = state /\ emptyState' = emptyState
        /\ userSettingsForm' = userSettingsForm
        /\ deleteAccountForm' = deleteAccountForm ]_vars

\* C4 witness: an advisory that also carried a load payload for another user
\* was processed on the second page of the Saved view; the held snapshot is
\* still the earlier one and the request asks for that page and view.
C4_Witness ==
  /\ IsEnvelopeStep /\ last.msg.reconnect /\ last.msg.op = "GetUserDetails"
  /\ state.user = UserA /\ state.view = "Saved" /\ state.page = 2
  /\ sent.page = 2 /\ sent.saved_only

\* --- C5
SameIds(a, b) == Len(a) = Len(b) /\ \A k \in 1..Len(a) : a[k].id = b[k].id
\* The snapshot and every collection of s hold exactly the payload d.
HoldsPayload(s, d) ==
  /\ s.user = d.user /\ s.comments = d.comments /\ s.posts = d.posts
  /\ s.follows = d.follows /\ s.moderates = d.moderates /\ s.admins = d.admins
\* Snapshot, comments, posts, follows and moderates of s stem from one load
\* response, or from none.
OneOrigin(s) ==
  \/ \E d \in UserDetailsResponses :
       /\ s.user = d.user /\ s.follows = d.follows /\ s.moderates = d.moderates
       /\ SameIds(s.comments, d.comments) /\ SameIds(s.posts, d.posts)
  \/ /\ s.user = NullUserView /\ s.follows = << >> /\ s.moderates = << >>
     /\ s.comments = << >> /\ s.posts = << >>
\* The same, the admin list included.
OneOriginWithAdmins(s) ==
  \/ \E d \in UserDetailsResponses :
       /\ s.user = d.user /\ s.follows = d.follows /\ s.moderates = d.moderates
       /\ SameIds(s.comments, d.comments) /\ SameIds(s.posts, d.posts)
       /\ s.admins = d.admins
  \/ /\ s.user = NullUserView /\ s.follows = << >> /\ s.moderates = << >>
     /\ s.comments = << >> /\ s.posts = << >>
     /\ \A d \in UserDetailsResponses : s.admins # d.admins

\* C5 (as stated): any step that changes the snapshot is a load response
\* that also replaces comments, posts, follows, moderates and admins with
\* the payload's values and sets loading to false, and in no state is one of
\* them from a load response while another is not.
C5_OnlyLoadReplacesAll ==
  [][ /\ state'.user # state.user =>
           /\ last'.h = "parseMessage" /\ last'.msg.error = Null
           /\ ~last'.msg.reconnect /\ last'.msg.op = "GetUserDetails"
           /\ HoldsPayload(state', last'.msg.data)
           /\ ~state'.loading
      /\ OneOriginWithAdmins(state') ]_vars

\* C5 (amended): a load response replaces the snapshot and the comments,
\* posts, follows, moderates and admin collections together with its
\* payload's values and sets loading to false; the only other step that
\* changes the snapshot is a settings-save success, which replaces snapshot,
\* collections and loading flag together by the values held in emptyState;
\* in every state the snapshot, comments, posts, follows and moderates stem
\* from one load response or from none, while the admin list may have been
\* replaced on its own by an admin-list update.
C5_SnapshotAndCollectionsTogether ==
  [][ /\ ( /\ last'.h = "parseMessage" /\ last'.msg.error = Null
           /\ ~last'.msg.reconnect /\ last'.msg.op = "GetUserDetails" ) =>
             HoldsPayload(state', last'.msg.data) /\ ~state'.loading
      /\ state'.user # state.user =>
           /\ last'.h = "parseMessage" /\ last'.msg.error = Null /\ ~last'.msg.reconnect
           /\ \/ last'.msg.op = "GetUserDetails"
              \/ /\ last'.msg.op = "SaveUserSettings"
                 /\ state'.user = emptyState.user
                 /\ state'.comments = emptyState.comments
                 /\ state'.posts = emptyState.posts
                 /\ state'.follows = emptyState.follows
                 /\ state'.moderates = emptyState.moderates
                 /\ state'.admins = emptyState.admins
                 /\ state'.loading = emptyState.loading
      /\ OneOrigin(state') ]_vars

\* C5 witness: a later load response has replaced a
\* snapshot whose admin list and first comment had been updated since.
C5_Witness ==
  /\ IsSuccessStep("GetUserDetails") /\ last.msg.data = DetailsB
  /\ HoldsPayload(state, DetailsB) /\ ~state.loading
  /\ emptyState.user = UserA /\ emptyState.comments[1].content = "edited"

\* C6: after a settings-save success envelope has been processed the
\* ViewModel has its empty shape (empty snapshot, all collections empty,
\* loading true, empty settings draft), the settings busy flag is false and
\* the payload's profile is the process-wide identity.
C6_SaveSuccessResetsToEmpty ==
  IsSuccessStep("SaveUserSettings") =>
    /\ state.user = NullUserView
    /\ state.comments = << >> /\ state.posts = << >> /\ state.follows = << >>
    /\ state.moderates = << >> /\ state.admins = << >>
    /\ state.loading
    /\ userSettingsForm = EmptyForm
    /\ state.userSettingsLoading = JsFalse
    /\ me = last.msg.data

\* new is old with banned set to the payload's value on the entries created
\* by the payload's user, and on no other.
BannedByCreator(old, new, data) ==
  /\ Len(new) = Len(old)
  /\ \A k \in 1..Len(old) :
       new[k].banned = IF old[k].creator_id = data.user.id THEN data.banned
                       ELSE old[k].banned

\* C7: processing a ban envelope sets banned to the payload's value on every
\* comment and post whose creator is the payload's user, and changes the
\* banned field of no other entry.
C7_BanFlipsByCreator ==
  [][ ( /\ last'.h = "parseMessage" /\ last'.msg.error = Null
        /\ ~last'.msg.reconnect /\ last'.msg.op = "BanUser" ) =>
          /\ BannedByCreator(state.comments, state'.comments, last'.msg.data)
          /\ BannedByCreator(state.posts, state'.posts, last'.msg.data) ]_vars

\* C7 witness: user 1 was banned; their comment and post are banned, the
\* comment of user 2 held next to them is not.
C7_Witness ==
  /\ IsSuccessStep("BanUser") /\ last.msg.data.user.id = 1 /\ last.msg.data.banned
  /\ Len(state.comments) = 2 /\ Len(state.posts) = 1
  /\ state.comments[1].banned /\ ~state.comments[2].banned /\ state.posts[1].banned

\* new holds the keys of old in the same order, and every entry whose key is
\* not id as it was.
UpdatedInPlace(old, new, id) ==
  /\ SameIds(old, new)
  /\ \A k \in 1..Len(old) : old[k].id # id => new[k] = old[k]

\* C8: processing a comment-edit, comment-save, comment-like or post-like
\* envelope leaves the sequence of identity keys of both collections
\* unchanged: a matching entry is updated in place, every other entry and
\* the other collection are untouched, and with no matching entry nothing
\* changes.
C8_ItemUpdateInPlace ==
  [][ ( /\ last'.h = "parseMessage" /\ last'.msg.error = Null /\ ~last'.msg.reconnect
        /\ last'.msg.op \in {"EditComment", "SaveComment", "CreateCommentLike",
                             "CreatePostLike"} ) =>
          IF last'.msg.op = "CreatePostLike"
          THEN /\ UpdatedInPlace(state.posts, state'.posts, last'.msg.data.post.id)
               /\ state'.comments = state.comments
               /\ \A k \in 1..Len(state.posts) :
                    state.posts[k].id = last'.msg.data.post.id =>
                      state'.posts[k].score = last'.msg.data.post.score
          ELSE /\ UpdatedInPlace(state.comments, state'.comments, last'.msg.data.comment.id)
               /\ state'.posts = state.posts
               /\ \A k \in 1..Len(state.comments) :
                    state.comments[k].id = last'.msg.data.comment.id =>
                      /\ state'.comments[k].creator_id = state.comments[k].creator_id
                      /\ state'.comments[k].banned = state.comments[k].banned
                      /\ last'.msg.op = "SaveComment" =>
                           state'.comments[k].saved = last'.msg.data.comment.saved
                      /\ last'.msg.op # "SaveComment" =>
                           state'.comments[k].score = last'.msg.data.comment.score ]_vars

\* C8 witness: a like for comment 1 was reconciled into a page holding two
\* comments; the first carries the new score, the second its old one.
C8_Witness ==
  /\ IsSuccessStep("CreateCommentLike") /\ last.msg.data.comment.id = 1
  /\ Len(state.comments) = 2
  /\ state.comments[1].id = 1 /\ state.comments[1].score = 6
  /\ state.comments[2].id = 2 /\ state.comments[2].score = 3

C14_RequestReflectsViewModel ==
  /\ ( /\ sent.sort = state.sort /\ sent.page = state.page
       /\ sent.saved_only = (state.view = "Saved") /\ sent.limit = fetchLimit )
  /\ [][ pending'.GetUserDetails > pending.GetUserDetails =>
           /\ sent'.sort = state'.sort /\ sent'.page = state'.page
           /\ sent'.saved_only = (state'.view = "Saved")
           /\ sent'.limit = fetchLimit ]_vars

\* C14 witness: a re-hydration to the last page of the Saved view under
\* TopAll has sent a request for exactly that.
C14_Witness ==
  /\ last.h = "componentWillReceiveProps"
  /\ state.view = "Saved" /\ state.page = MaxPage
  /\ sent.saved_only /\ sent.page = MaxPage /\ sent.sort = "TopAll" /\ sent.limit = fetchLimit
  /\ pending.GetUserDetails = 2

\* A selector of the request form holds a value: Number(undefined) is NaN,
\* which is no id, and an absent route parameter is undefined.
PopulatedId(v) == v \notin {NaN, NullId}
PopulatedName(v) == v \notin {Null, Undefined}

C16_LoadKeepsSeededDraft ==
  [][ ( /\ last'.h = "parseMessage" /\ last'.msg.error = Null /\ ~last'.msg.reconnect
        /\ last'.msg.op = "GetUserDetails"
        /\ userSettingsForm # EmptyForm ) =>
          userSettingsForm' = userSettingsForm ]_vars

\* C17: processing an envelope with no error and no reconnect advisory whose
\* operation no branch names changes no ViewModel field and no busy flag,
\* sends no request and signals neither a notification nor a navigation.
C17_UnknownOperationIgnored ==
  [][ ( /\ last'.h = "parseMessage" /\ last'.msg.error = Null /\ ~last'.msg.reconnect
        /\ last'.msg.op = "GetSite" ) =>
          /\ state' = state /\ emptyState' = emptyState
          /\ userSettingsForm' = userSettingsForm
          /\ deleteAccountForm' = deleteAccountForm
          /\ pending' = pending /\ sent' = sent /\ location' = location
          /\ out' = [toast |-> Null, nav |-> FALSE]
          /\ subscription' = subscription ]_vars

\* C17 witness: a site envelope was processed while the page was loading the
\* Comments view with two requests outstanding.
C17_Witness ==
  /\ IsSuccessStep("GetSite") /\ state.loading
  /\ state.view = "Comments" /\ pending.GetUserDetails = 2 /\ ~out.nav

\* C18: processing an envelope whose error field is set leaves the snapshot,
\* the comments, posts, follows, moderates and admin collections, the view
\* category, sort mode and page index, the settings draft, the delete form
\* and the confirmation toggle as they were, whatever its operation tag and
\* payload.
C18_ErrorPayloadNotInterpreted ==
  [][ ( last'.h = "parseMessage" /\ last'.msg.error # Null ) =>
        /\ state'.user = state.user
        /\ state'.comments = state.comments /\ state'.posts = state.posts
        /\ state'.follows = state.follows /\ state'.moderates = state.moderates
        /\ state'.admins = state.admins
        /\ state'.view = state.view /\ state'.sort = state.sort
        /\ state'.page = state.page
        /\ state'.user_id = state.user_id /\ state'.username = state.username
        /\ state'.loading = state.loading
        /\ userSettingsForm' = userSettingsForm
        /\ deleteAccountForm' = deleteAccountForm
        /\ state'.deleteAccountShowConfirm = state.deleteAccountShowConfirm
        /\ me' = me /\ sent' = sent ]_vars

\* C18 witness: an error envelope tagged as a load and carrying a full
\* payload was processed with the confirmation open; the earlier snapshot
\* and comments are still held.
C18_Witness ==
  /\ IsErrorStep /\ last.msg.op = "GetUserDetails" /\ last.msg.data = DetailsB
  /\ state.user = UserA /\ state.comments = DetailsA.comments
  /\ state.deleteAccountShowConfirm /\ deleteAccountForm.password = "pw"

\* C19: processing an account-deletion success sets deleteAccountLoading and
\* the confirmation toggle to false and signals navigation, and leaves the
\* upload and settings busy flags, the snapshot and the collections as they
\* were.
C19_DeleteSuccess ==
  [][ ( /\ last'.h = "parseMessage" /\ last'.msg.error = Null /\ ~last'.msg.reconnect
        /\ last'.msg.op = "DeleteAccount" ) =>
          /\ state' = [state EXCEPT !.deleteAccountLoading = JsFalse,
                                    !.deleteAccountShowConfirm = FALSE]
          /\ out'.nav
          /\ userSettingsForm' = userSettingsForm ]_vars

\* C19 witness: the deletion succeeded while an upload and a settings save
\* were still busy; both flags are still up and navigation was signalled.
C19_Witness ==
  /\ IsSuccessStep("DeleteAccount") /\ out.nav
  /\ state.avatarLoading /\ Truthy(state.userSettingsLoading)
  /\ state.deleteAccountLoading = JsFalse /\ ~state.deleteAccountShowConfirm
  /\ state.user = UserA /\ Len(state.comments) = 2

\* C20: the teardown releases the subscription and retracts no request;
\* from then on no envelope, a late answer to an outstanding request
\* included, is handed to parseMessage, no retry resubscribes, and the
\* ViewModel, the requests sent and the navigation signal stay as they are.
C20_TeardownReleases ==
  /\ [] ( last.h = "componentWillUnmount" =>
            /\ subscription = "unsubscribed"
            /\ \A msg \in RetryMsgs : ~ENABLED parseMessage(msg)
            /\ ~ENABLED retryDelayElapsed )
  /\ [][ /\ last'.h = "componentWillUnmount" =>
             /\ pending' = pending /\ sent' = sent
             /\ state' = state /\ ~out'.nav
         /\ last.h = "componentWillUnmount" => UNCHANGED vars ]_vars

\* C20 witness: the page was torn down while its first load request was
\* still unanswered and the stream was waiting to be retried.
C20_Witness ==
  /\ last.h = "componentWillUnmount" /\ subscription = "unsubscribed"
  /\ pending.GetUserDetails = 1 /\ state.loading /\ takeCount = 1
  /\ sinceDispatch = 1

\* The sort key of a combined entry under a sort mode.
SortKey(sort, e) == IF sort = "New" THEN e.data.published ELSE e.data.score

\* C21: the overview ordering holds every held comment and every held post
\* exactly once, is in descending order of publication time under sort
\* mode New and of score under any other sort mode, and computing it leaves
\* the held comments and posts as they were.
C21_OverviewOrdering ==
  LET o == overview(state) IN
  /\ Len(o.combined) = Len(state.comments) + Len(state.posts)
  /\ \A k \in 1..Len(state.comments) :
       Cardinality({ j \in 1..Len(o.combined) :
                      o.combined[j].type_ = "comments"
                      /\ o.combined[j].data.id = state.comments[k].id
                      /\ o.combined[j].data.score = state.comments[k].score }) = 1
  /\ \A k \in 1..Len(state.posts) :
       Cardinality({ j \in 1..Len(o.combined) :
                      o.combined[j].type_ = "posts"
                      /\ o.combined[j].data.id = state.posts[k].id
                      /\ o.combined[j].data.score = state.posts[k].score }) = 1
  /\ \A j \in 1..(Len(o.combined) - 1) :
       SortKey(state.sort, o.combined[j]) >= SortKey(state.sort, o.combined[j + 1])
  /\ o.comments = state.comments /\ o.posts = state.posts

\* C21 witness: the sort mode was switched to TopAll over the held items of
\* the second response; post 10 (score 5) now comes before post 11
\* (score 3), which was published later, and comment 3 last.
C21_Witness ==
  /\ last.h = "handleSortChange" /\ state.sort = "TopAll"
  /\ state.posts = DetailsB.posts /\ state.comments = DetailsB.comments
  /\ overview(state).combined[1].data.id = 10
  /\ overview(state).combined[2].data.id = 11
  /\ overview(state).combined[3].type_ = "comments"

\* C22: starting an upload sets avatarLoading; each outcome of the upload
\* clears it and starts no other upload: after msg 'ok' the draft avatar is
\* the URL built from the file's hash, after any other msg or a transport
\* failure the outcome is handed to toast and the draft is as it was.
C22_UploadOutcomes ==
  [][ /\ last'.h = "handleImageUpload" =>
           state'.avatarLoading /\ pending'.avatar = pending.avatar + 1
      /\ last'.h = "handleImageUploadDone" =>
           /\ ~state'.avatarLoading
           /\ pending'.avatar = pending.avatar - 1
           /\ \/ /\ out'.toast = Null
                 /\ userSettingsForm' = [userSettingsForm EXCEPT !.avatar = "/pictrs/image/h2"]
              \/ /\ out'.toast \in {"not_ok", "rejected"}
                 /\ userSettingsForm' = userSettingsForm ]_vars

\* C22 witness: after one upload had succeeded a second one was rejected;
\* the flag is down, the failure was surfaced and the draft still holds the
\* first upload's URL.
C22_Witness ==
  /\ last.h = "handleImageUploadDone" /\ out.toast = "rejected"
  /\ ~state.avatarLoading /\ pending.avatar = 0
  /\ userSettingsForm.avatar = "/pictrs/image/h2"

\* C23: a deletion request is sent, and the deletion flag set, only by a
\* step taken with a non-empty password; while the password is empty the
\* delete action cannot be triggered.
C23_DeleteNeedsPassword ==
  /\ [] ( deleteAccountForm.password \in {Null, ""} => ~ENABLED handleDeleteAccount )
  /\ [][ ( \/ pending'.DeleteAccount > pending.DeleteAccount
            \/ (Truthy(state'.deleteAccountLoading) /\ ~Truthy(state.deleteAccountLoading)) ) =>
              /\ deleteAccountForm.password \notin {Null, ""}
              /\ last'.h = "handleDeleteAccount"
              /\ pending'.DeleteAccount = pending.DeleteAccount + 1 ]_vars

\* C23 witness: the confirmation is open on the own page and the password
\* has been emptied again; no deletion is outstanding and the flag is not
\* set.
C23_Witness ==
  /\ SettingsRendered /\ state.deleteAccountShowConfirm
  /\ last.h = "handleDeleteAccountPasswordChange" /\ deleteAccountForm.password = ""
  /\ pending.DeleteAccount = 0 /\ ~Truthy(state.deleteAccountLoading)

\* C24: when the page receives new props under history action POP or PUSH,
\* view category, sort mode and page index become the values of the
\* location parameters, Overview, New and 1 standing in for an absent one,
\* and one load request carrying those values is sent; under any other
\* action the three parameters stay as they were and no request is sent.
C24_Rehydration ==
  [][ last'.h = "componentWillReceiveProps" =>
        LET p == last'.nextProps.params IN
        IF last'.nextProps.action \in {"POP", "PUSH"}
        THEN /\ state'.view = (IF p.view = Undefined THEN "Overview" ELSE p.view)
             /\ state'.sort = (IF p.sort = Undefined THEN "New" ELSE p.sort)
             /\ state'.page = (IF p.page = NullId THEN 1 ELSE p.page)
             /\ sent'.sort = state'.sort /\ sent'.page = state'.page
             /\ sent'.saved_only = (state'.view = "Saved")
             /\ sent'.user_id = state.user_id /\ sent'.username = state.username
             /\ pending'.GetUserDetails = pending.GetUserDetails + 1
        ELSE /\ state' = state
             /\ sent' = sent /\ pending' = pending ]_vars

\* C24 witness: a back navigation to a location without parameters took the
\* page from the last page of the Saved view under TopAll back to the first
\* page of the Overview under New, and asked for it.
C24_Witness ==
  /\ last.h = "componentWillReceiveProps" /\ last.nextProps.action = "POP"
  /\ last.nextProps.params.view = Undefined
  /\ location.view = "Saved" /\ location.sort = "TopAll" /\ location.page = MaxPage
  /\ state.view = "Overview" /\ state.sort = "New" /\ state.page = 1
  /\ sent.page = 1 /\ ~sent.saved_only /\ sent.sort = "New"

\* C25: whenever a load response has been processed, whichever of the
\* outstanding requests it answers and whatever sort mode, view category and
\* page index are selected by then, the snapshot and the collections are
\* exactly its payload: the response that arrived last wins.
C25_LastLoadWins ==
  IsSuccessStep("GetUserDetails") =>
    /\ state.user = last.msg.data.user
    /\ state.comments = last.msg.data.comments /\ state.posts = last.msg.data.posts
    /\ state.follows = last.msg.data.follows /\ state.moderates = last.msg.data.moderates
    /\ state.admins = last.msg.data.admins

\* C25 witness: with two requests outstanding, the second page under TopAll
\* selected, the first response to arrive was applied while the other
\* request is still unanswered.
C25_Witness ==
  /\ IsSuccessStep("GetUserDetails") /\ last.msg.data = DetailsA
  /\ pending.GetUserDetails = 1 /\ state.page = 2 /\ state.sort = "TopAll"
  /\ state.user = UserA /\ state.posts = DetailsA.posts

\* C26: processing an admin-list update replaces the admin list with the
\* payload's list and changes no other field of the ViewModel.
C26_AddAdminFrame ==
  [][ ( /\ last'.h = "parseMessage" /\ last'.msg.error = Null /\ ~last'.msg.reconnect
        /\ last'.msg.op = "AddAdmin" ) =>
          /\ state'.admins = last'.msg.data.admins
          /\ [state' EXCEPT !.admins = state.admins] = state
          /\ userSettingsForm' = userSettingsForm
          /\ deleteAccountForm' = deleteAccountForm
          /\ sent' = sent /\ pending' = pending /\ me' = me ]_vars

\* C26 witness: the list << 1, 2 >> of the second response was replaced by
\* the update's << 2 >>; the rest of that response is still held.
C26_Witness ==
  /\ IsSuccessStep("AddAdmin") /\ state.admins = << 2 >>
  /\ state.user = UserA2 /\ state.posts = DetailsB.posts /\ state.moderates = << 8 >>

\* C27: a load response writes the settings draft exactly when a user is
\* logged in whose id is the loaded snapshot's id: then show_nsfw, theme
\* (darkly when the profile has none) and avatar are the logged-in
\* profile's and email is the loaded snapshot's; with no logged-in user or
\* another id every field of the draft is as it was.
C27_SeedsOnlySelfView ==
  [][ ( /\ last'.h = "parseMessage" /\ last'.msg.error = Null /\ ~last'.msg.reconnect
        /\ last'.msg.op = "GetUserDetails" ) =>
          IF me.id # NullId /\ me.id = last'.msg.data.user.id
          THEN userSettingsForm' =
                 [theme |-> IF me.theme = Null THEN "darkly" ELSE me.theme,
                  show_nsfw |-> me.show_nsfw,
                  avatar |-> me.avatar,
                  email |-> last'.msg.data.user.email]
          ELSE userSettingsForm' = userSettingsForm ]_vars

\* C27 witness: on the logged-in user's own page a load response after a
\* settings save has seeded the draft from the saved profile and from the
\* snapshot's email.
C27_Witness ==
  /\ IsSuccessStep("GetUserDetails") /\ me = MeA2 /\ state.user = UserA
  /\ userSettingsForm = [theme |-> "litera", show_nsfw |-> JsTrue,
                         avatar |-> "/pictrs/image/h1", email |-> "a@x"]

C29_OnlyLoadChangesLoading ==
  [][ state'.loading # state.loading =>
        /\ last'.h = "parseMessage" /\ last'.msg.error = Null /\ ~last'.msg.reconnect
        /\ last'.msg.op = "GetUserDetails"
        /\ ~state'.loading ]_vars

\* C29 (amended): the loading flag is set to false only by a successful
\* load response; an error envelope, a reconnect advisory, a parameter
\* change and every other operation leave it unchanged, except a
\* settings-save success, which installs the flag held in emptyState and may
\* so set it back to true; once true it stays true until a load response
\* arrives.
C29_LoadingClearedOnlyByLoad ==
  [][ /\ (state.loading /\ ~state'.loading) =>
           /\ last'.h = "parseMessage" /\ last'.msg.error = Null
           /\ ~last'.msg.reconnect /\ last'.msg.op = "GetUserDetails"
      /\ (~state.loading /\ state'.loading) =>
           /\ last'.h = "parseMessage" /\ last'.msg.error = Null
           /\ ~last'.msg.reconnect /\ last'.msg.op = "SaveUserSettings"
           /\ emptyState.loading
      /\ ( last'.h = "parseMessage" /\ last'.msg.error = Null /\ ~last'.msg.reconnect
           /\ last'.msg.op = "GetUserDetails" ) => ~state'.loading ]_vars

\* C29 witness: the first load request was answered by a non-fatal error;
\* the flag is still true and the request for a retry can still be answered.
C29_Witness ==
  /\ IsErrorStep /\ last.msg.error = "couldnt_like_comment"
  /\ state.loading /\ state.user = NullUserView /\ pending.GetUserDetails = 2

\* C30: processing a ban envelope leaves the snapshot (its banned field
\* included, also when the banned user is the page's user), the admin list,
\* the busy flags, the view parameters and every other field as they were;
\* the comments and posts keep their length and order and every entry is
\* as it was in all fields but banned.
C30_BanFrame ==
  [][ ( /\ last'.h = "parseMessage" /\ last'.msg.error = Null /\ ~last'.msg.reconnect
        /\ last'.msg.op = "BanUser" ) =>
          /\ [state' EXCEPT !.comments = state.comments, !.posts = state.posts] = state
          /\ Len(state'.comments) = Len(state.comments)
          /\ Len(state'.posts) = Len(state.posts)
          /\ \A k \in 1..Len(state.comments) :
               [state'.comments[k] EXCEPT !.banned = state.comments[k].banned]
                 = state.comments[k]
          /\ \A k \in 1..Len(state.posts) :
               [state'.posts[k] EXCEPT !.banned = state.posts[k].banned] = state.posts[k]
          /\ userSettingsForm' = userSettingsForm
          /\ deleteAccountForm' = deleteAccountForm
          /\ sent' = sent /\ pending' = pending /\ me' = me ]_vars

\* C30 witness: the page's own user (id 1) was banned; their post is
\* banned, the snapshot still says not banned and the admin list is held.
C30_Witness ==
  /\ IsSuccessStep("BanUser") /\ last.msg.data.user.id = state.user.id
  /\ last.msg.data.banned /\ state.user.banned = JsFalse
  /\ state.posts[1].banned /\ state.admins = << 1 >>

\* C31: over the lifetime of the subscription the stream is resubscribed at
\* most RetryLimit times in all; a resubscription happens only when the
\* delay that a stream error started has elapsed, one per error; and once
\* the RetryLimit-th retry has been made neither a further retry nor a
\* further resubscription can happen.
C31_AtMostTenResubscriptions ==
  /\ [] ( /\ takeCount <= RetryLimit
          /\ ENABLED retryDelayElapsed => (subscription = "delaying" /\ last.h = "streamError")
          /\ takeCount = RetryLimit =>
               /\ subscription \in {"complete", "unsubscribed"}
               /\ ~ENABLED retryDelayElapsed /\ ~ENABLED streamError )
  /\ [][ /\ takeCount' # takeCount =>
             /\ last.h = "streamError" /\ subscription = "delaying"
             /\ last'.h = "retryDelayElapsed" /\ takeCount' = takeCount + 1
         /\ (subscription # "subscribed" /\ subscription' = "subscribed") =>
             /\ subscription = "delaying" /\ takeCount' = takeCount + 1 ]_vars

\* C31 witness: ten stream errors in a row, with no envelope dispatched in
\* between and the first load request still unanswered, have used up the
\* retries; the tenth delay has elapsed and nothing more can happen on the
\* stream.
C31_Witness ==
  /\ last.h = "retryDelayElapsed" /\ takeCount = RetryLimit
  /\ sinceDispatch = RetryLimit /\ pending.GetUserDetails = 1
  /\ ~ENABLED streamError /\ ~ENABLED retryDelayElapsed

====
